---- MODULE Spec2Model ----
(***************************************************************************)
(* Model of CyDSProject_Part_2.py: extraction of vulnerable/fixed code     *)
(* pairs from fix commits.  get_file_content, process_repository and main  *)
(* are modelled with the git backend, the clone cache directory, the       *)
(* output file and the log as state.  Strings whose characters the code    *)
(* inspects (URLs, commit references, file paths) are sequences of         *)
(* one-character strings.                                                  *)
(***************************************************************************)
EXTENDS Integers, Sequences, FiniteSets, TLC

\* ------------------------------------------------------------------------
\* Configuration (src lines 12-17)
\* ------------------------------------------------------------------------
VALID_EXTENSIONS ==
    { <<".", "j", "a", "v", "a">>, <<".", "p", "y">>, <<".", "j", "s">>, <<".", "c">>, <<".", "c", "p", "p">>, <<".", "h">>, <<".", "g", "o">> }

MIN_CODE_LENGTH == 50

MAX_FILE_SIZE == 100000

\* Largest number of input rows of a run.
MaxRows == 2

\* ------------------------------------------------------------------------
\* String functions of the Python library used by the code
\* ------------------------------------------------------------------------
UpperAlpha == <<"A", "B", "C", "D", "E", "F", "G", "H", "I", "J", "K", "L", "M", "N", "O", "P", "Q", "R", "S", "T", "U", "V", "W", "X", "Y", "Z">>

LowerAlpha == <<"a", "b", "c", "d", "e", "f", "g", "h", "i", "j", "k", "l", "m", "n", "o", "p", "q", "r", "s", "t", "u", "v", "w", "x", "y", "z">>

\* str.lower() on one character
LowerChar(c) ==
    IF \E i \in 1..26 : UpperAlpha[i] = c
    THEN LowerAlpha[CHOOSE i \in 1..26 : UpperAlpha[i] = c]
    ELSE c

\* str.lower()
Lower(s) == [i \in 1..Len(s) |-> LowerChar(s[i])]

\* str.rfind(ch): index (from 1) of the last occurrence, 0 when absent
RFind(s, ch) ==
    IF \E i \in 1..Len(s) : s[i] = ch
    THEN CHOOSE i \in 1..Len(s) : s[i] = ch /\ \A j \in (i+1)..Len(s) : s[j] # ch
    ELSE 0

\* str.split('/')[-1]
LastSegment(s) == SubSeq(s, RFind(s, "/") + 1, Len(s))

\* str.strip() (only blanks occur as whitespace in the inputs)
RECURSIVE LStrip(_)
LStrip(s) == IF s # <<>> /\ Head(s) = " " THEN LStrip(Tail(s)) ELSE s

RECURSIVE RStrip(_)
RStrip(s) ==
    IF s # <<>> /\ s[Len(s)] = " " THEN RStrip(SubSeq(s, 1, Len(s) - 1)) ELSE s

Strip(s) == RStrip(LStrip(s))

\* str.replace(old, new): left to right, non-overlapping, old non-empty
RECURSIVE Replace(_, _, _)
Replace(s, old, new) ==
    IF Len(s) < Len(old) THEN s
    ELSE IF SubSeq(s, 1, Len(old)) = old
         THEN new \o Replace(SubSeq(s, Len(old) + 1, Len(s)), old, new)
         ELSE <<Head(s)>> \o Replace(Tail(s), old, new)

\* pathlib.Path(p).suffix: the part of the final component from its last
\* dot, empty when the dot is the first or the last character of the name
Suffix(p) ==
    LET name == LastSegment(p)
        i    == RFind(name, ".")
    IN  IF 1 < i /\ i < Len(name) THEN SubSeq(name, i, Len(name)) ELSE <<>>

\* ------------------------------------------------------------------------
\* The git backend: remote repositories, their commits, diffs and blobs.
\* These are the inputs of the program; the values are chosen so that every
\* branch of the code is taken.
\* ------------------------------------------------------------------------
Null == "null"

\* Repository served at a (stripped) URL; "unreachable" makes clone_from raise.
Remote(url) ==
    CASE url = <<"a", "/", "l", "i", "b", ".", "g", "i", "t">> -> "RA"
      [] url = <<"b", "/", "l", "i", "b">>     -> "RB"
      [] url = <<"c", "/", "l", ".", "g", "i", "t", "i", "b">> -> "RC"
      [] OTHER              -> "unreachable"

Commits(repo) ==
    CASE repo = "RA" -> { <<"c", "0">>, <<"c", "1">> }
      [] repo = "RB" -> { <<"d", "0">>, <<"d", "1">> }
      [] repo = "RC" -> { <<"e", "0">>, <<"e", "1">> }
      [] OTHER       -> {}

\* commit.parents
Parents(repo, c) ==
    CASE c = <<"c", "1">> -> << <<"c", "0">> >>
      [] c = <<"d", "1">> -> << <<"d", "0">> >>
      [] c = <<"e", "1">> -> << <<"e", "0">> >>
      [] OTHER     -> << >>

Change(type, path) == [change_type |-> type, a_path |-> path]

\* parent_commit.diff(commit)
DiffIndex(repo, c) ==
    CASE repo = "RA" /\ c = <<"c", "1">> ->
           << Change("M", <<"s", "r", "c", "/", "A", "u", "t", "h", ".", "j", "a", "v", "a">>), Change("M", <<"R", "E", "A", "D", "M", "E", ".", "m", "d">>),
              Change("A", <<"N", "e", "w", ".", "p", "y">>),        Change("M", <<"B", "i", "g", ".", "p", "y">>),
              Change("M", <<"s", "r", "c", "/", "U", ".", "J", "A", "V", "A">>),    Change("M", <<"S", "a", "m", "e", ".", "c">>) >>
      [] repo = "RB" /\ c = <<"d", "1">> ->
           << Change("M", <<"E", "d", "g", "e", ".", "g", "o">>),  Change("M", <<"S", "h", "o", "r", "t", ".", "h">>),
              Change("M", <<"M", "a", "k", "e", "f", "i", "l", "e">>), Change("M", <<"B", "a", "d", ".", "j", "s">>),
              Change("M", <<"H", "u", "g", "e", ".", "c", "p", "p">>), Change("D", <<"G", "o", "n", "e", ".", "c">>) >>
      [] repo = "RC" /\ c = <<"e", "1">> ->
           << Change("M", <<"x", "/", ".", "p", "y">>),   Change("M", <<"a", ".", "p", "y", "/", "n", "o", "t", "e", "s">>),
              Change("M", <<"m", ".", "t", "a", "r", ".", "c">>), Change("M", <<"O", "d", "d", ".", "P", "y">>),
              Change("M", <<"E", "n", "c", ".", "h">>) >>
      [] OTHER -> << >>

\* A blob: declared size, the encoding chardet reports for its bytes (Null
\* when detection is inconclusive), its text as a number of lines of one
\* content, and the step of the retrieval at which reading it raises.
Blob(size, enc, n, tag, fault) ==
    [size |-> size, enc |-> enc, n |-> n, tag |-> tag, fault |-> fault]

NoBlob == Blob(0, Null, 0, "absent", "tree")

\* commit.tree[path]; NoBlob stands for the KeyError of a missing path
BlobAt(repo, c, path) ==
    CASE c = <<"c", "0">> /\ path = <<"s", "r", "c", "/", "A", "u", "t", "h", ".", "j", "a", "v", "a">> -> Blob(2400, "ascii", 80, "strcmp", "none")
      [] c = <<"c", "1">> /\ path = <<"s", "r", "c", "/", "A", "u", "t", "h", ".", "j", "a", "v", "a">> -> Blob(2500, "ascii", 80, "ct_compare", "none")
      [] c = <<"c", "0">> /\ path = <<"R", "E", "A", "D", "M", "E", ".", "m", "d">>     -> Blob(900, "ascii", 60, "doc1", "none")
      [] c = <<"c", "1">> /\ path = <<"R", "E", "A", "D", "M", "E", ".", "m", "d">>     -> Blob(950, "ascii", 60, "doc2", "none")
      [] c = <<"c", "1">> /\ path = <<"N", "e", "w", ".", "p", "y">>        -> Blob(700, "ascii", 70, "new", "none")
      [] c = <<"c", "0">> /\ path = <<"B", "i", "g", ".", "p", "y">>        -> Blob(100001, "ascii", 90, "big1", "none")
      [] c = <<"c", "1">> /\ path = <<"B", "i", "g", ".", "p", "y">>        -> Blob(99999, "ascii", 90, "big2", "none")
      [] c = <<"c", "0">> /\ path = <<"s", "r", "c", "/", "U", ".", "J", "A", "V", "A">>    -> Blob(1500, "utf-8", 55, "u1", "none")
      [] c = <<"c", "1">> /\ path = <<"s", "r", "c", "/", "U", ".", "J", "A", "V", "A">>    -> Blob(1600, "utf-8", 55, "u2", "none")
      [] c = <<"c", "0">> /\ path = <<"S", "a", "m", "e", ".", "c">>        -> Blob(1800, "latin-1", 60, "same", "none")
      [] c = <<"c", "1">> /\ path = <<"S", "a", "m", "e", ".", "c">>        -> Blob(1801, Null, 60, "same", "none")
      [] c = <<"d", "0">> /\ path = <<"E", "d", "g", "e", ".", "g", "o">>       -> Blob(100000, "ascii", 50, "edge1", "none")
      [] c = <<"d", "1">> /\ path = <<"E", "d", "g", "e", ".", "g", "o">>       -> Blob(100000, "ascii", 51, "edge2", "none")
      [] c = <<"d", "0">> /\ path = <<"S", "h", "o", "r", "t", ".", "h">>       -> Blob(400, "ascii", 49, "short1", "none")
      [] c = <<"d", "1">> /\ path = <<"S", "h", "o", "r", "t", ".", "h">>       -> Blob(420, "ascii", 50, "short2", "none")
      [] c = <<"d", "0">> /\ path = <<"M", "a", "k", "e", "f", "i", "l", "e">>      -> Blob(600, "ascii", 60, "mk1", "none")
      [] c = <<"d", "1">> /\ path = <<"M", "a", "k", "e", "f", "i", "l", "e">>      -> Blob(610, "ascii", 60, "mk2", "none")
      [] c = <<"d", "0">> /\ path = <<"B", "a", "d", ".", "j", "s">>        -> Blob(800, "ascii", 60, "bad1", "read")
      [] c = <<"d", "1">> /\ path = <<"B", "a", "d", ".", "j", "s">>        -> Blob(810, "ascii", 60, "bad2", "none")
      [] c = <<"d", "0">> /\ path = <<"H", "u", "g", "e", ".", "c", "p", "p">>      -> Blob(5000, "ascii", 70, "huge1", "none")
      [] c = <<"d", "1">> /\ path = <<"H", "u", "g", "e", ".", "c", "p", "p">>      -> Blob(100001, "ascii", 70, "huge2", "none")
      [] c = <<"d", "0">> /\ path = <<"G", "o", "n", "e", ".", "c">>        -> Blob(500, "ascii", 60, "gone", "none")
      [] c = <<"e", "0">> /\ path = <<"x", "/", ".", "p", "y">>         -> Blob(500, "ascii", 60, "hid1", "none")
      [] c = <<"e", "1">> /\ path = <<"x", "/", ".", "p", "y">>         -> Blob(510, "ascii", 60, "hid2", "none")
      [] c = <<"e", "0">> /\ path = <<"a", ".", "p", "y", "/", "n", "o", "t", "e", "s">>    -> Blob(500, "ascii", 60, "note1", "none")
      [] c = <<"e", "1">> /\ path = <<"a", ".", "p", "y", "/", "n", "o", "t", "e", "s">>    -> Blob(510, "ascii", 60, "note2", "none")
      [] c = <<"e", "0">> /\ path = <<"m", ".", "t", "a", "r", ".", "c">>       -> Blob(500, "ascii", 60, "tar1", "none")
      [] c = <<"e", "1">> /\ path = <<"m", ".", "t", "a", "r", ".", "c">>       -> Blob(510, "ascii", 60, "tar2", "none")
      [] c = <<"e", "0">> /\ path = <<"E", "n", "c", ".", "h">>         -> Blob(500, "ascii", 60, "enc1", "none")
      [] c = <<"e", "1">> /\ path = <<"E", "n", "c", ".", "h">>         -> Blob(510, "x-unknown", 60, "enc2", "none")
      [] c = <<"e", "0">> /\ path = <<"O", "d", "d", ".", "P", "y">>        -> Blob(500, "ascii", 52, "odd1", "detect")
      [] c = <<"e", "1">> /\ path = <<"O", "d", "d", ".", "P", "y">>        -> Blob(510, "ascii", 52, "odd2", "none")
      [] OTHER -> NoBlob

\* Encodings bytes.decode accepts; any other name raises LookupError.
Codecs == { "ascii", "utf-8", "latin-1" }

\* The text of a blob: n lines.
Lines(n, tag) == [i \in 1..n |-> tag]

\* ------------------------------------------------------------------------
\* Log records (logging.info / warning / error calls of the code)
\* ------------------------------------------------------------------------
LogEntry(level, msg, cve, url, path, commit, n) ==
    [level |-> level, msg |-> msg, cve |-> cve, url |-> url,
     path |-> path, commit |-> commit, n |-> n]

\* line 51: "Error reading {file_path} at {commit_hash}: ..."
ReadWarning(file_path, commit_hash) ==
    LogEntry("WARNING", "Error reading", "", <<>>, file_path, commit_hash, 0)

\* Variant of line 70 that leaves the commit out of the message.
NoParentWarningNoCommit(commit_hash) ==
    LogEntry("WARNING", "No parent commit", "", <<>>, <<>>, <<>>, 0)

\* line 70: "No parent commit for {commit_hash}"
NoParentWarning(commit_hash) ==
    LogEntry("WARNING", "No parent commit", "", <<>>, <<>>, commit_hash, 0)

\* line 111: "Error processing {repo_url}: ..."
ProcessError(repo_url) ==
    LogEntry("ERROR", "Error processing", "", repo_url, <<>>, <<>>, 0)

\* ------------------------------------------------------------------------
\* get_file_content (lines 29-52)
\* ------------------------------------------------------------------------
\* The cache directory cloned_repos: a function from the directory names
\* present in it to the URL each was cloned from.
LocalRepo(disk, repo_name) ==
    IF repo_name \in DOMAIN disk THEN Remote(disk[repo_name]) ELSE "norepo"

\* Result of a retrieval: ok/text is the returned value (ok = FALSE is
\* None), warned the warnings it logged, read whether the blob's bytes were
\* read, escaped whether an exception left the function.
Retrieved(ok, text, warned, read) ==
    [ok |-> ok, text |-> text, warned |-> warned, read |-> read,
     escaped |-> FALSE]

\* Variant without the except clause: the exception propagates.
GfcExceptEscapes(file_path, commit_hash, read) ==
    [ok |-> FALSE, text |-> <<>>, warned |-> <<>>, read |-> read,
     escaped |-> TRUE]

\* lines 50-52: the except clause
GfcExcept(file_path, commit_hash, read) ==
    Retrieved(FALSE, <<>>, << ReadWarning(file_path, commit_hash) >>, read)

\* Variant of line 37 with >= for >.
TooLargeInclusive(size) == size >= MAX_FILE_SIZE

\* line 37
TooLarge(size) == size > MAX_FILE_SIZE

\* line 46
TooShort(lines) == Len(lines) < MIN_CODE_LENGTH

\* line 41: chardet.detect(raw_data)['encoding'] or 'utf-8'
Encoding(blob) == IF blob.enc = Null THEN "utf-8" ELSE blob.enc

get_file_content(disk, repo_name, file_path, commit_hash) ==
    LET repo == LocalRepo(disk, repo_name)
        blob == BlobAt(repo, commit_hash, file_path)
        encoding == Encoding(blob)
        content == Lines(blob.n, blob.tag)
    IN  IF repo \in {"norepo", "unreachable"}                  \* line 32 raises
        THEN GfcExcept(file_path, commit_hash, FALSE)
        ELSE IF commit_hash \notin Commits(repo)               \* line 33 raises
        THEN GfcExcept(file_path, commit_hash, FALSE)
        ELSE IF blob = NoBlob                                  \* line 34 raises
        THEN GfcExcept(file_path, commit_hash, FALSE)
        ELSE IF TooLarge(blob.size)                            \* lines 37-38
        THEN Retrieved(FALSE, <<>>, <<>>, FALSE)
        ELSE IF blob.fault = "read"                            \* line 40 raises
        THEN GfcExcept(file_path, commit_hash, FALSE)
        ELSE IF blob.fault = "detect"                          \* line 41 raises
        THEN GfcExcept(file_path, commit_hash, TRUE)
        ELSE IF encoding \notin Codecs                         \* line 42 raises
        THEN GfcExcept(file_path, commit_hash, TRUE)
        ELSE IF TooShort(content)                              \* lines 45-47
        THEN Retrieved(FALSE, <<>>, <<>>, TRUE)
        ELSE Retrieved(TRUE, content, <<>>, TRUE)              \* line 49

\* ------------------------------------------------------------------------
\* process_repository (lines 54-113), as functions of the cache directory
\* ------------------------------------------------------------------------
GitSuffix == <<".", "g", "i", "t">>

\* line 56: repo_url.split('/')[-1].replace('.git', '')
RepoName(repo_url) == Replace(LastSegment(repo_url), GitSuffix, <<>>)

\* line 62: os.path.exists(os.path.join(CLONED_REPOS_DIR, repo_name)); the
\* empty name joins to the cache directory itself, which main created
PathExists(disk, repo_name) == repo_name = <<>> \/ repo_name \in DOMAIN disk

\* lines 62-64: clone when the path is absent.  cloned tells whether
\* clone_from was called, raised whether it failed.
Acquire(disk, repo_url) ==
    LET name == RepoName(repo_url) IN
    IF PathExists(disk, name)
    THEN [disk |-> disk, cloned |-> FALSE, raised |-> FALSE]
    ELSE IF Remote(repo_url) = "unreachable"
    THEN [disk |-> disk, cloned |-> TRUE, raised |-> TRUE]
    ELSE [disk |-> [n \in DOMAIN disk \cup {name} |->
                       IF n = name THEN repo_url ELSE disk[n]],
          cloned |-> TRUE, raised |-> FALSE]

\* lines 66-73: open the local repository, resolve the commit, look at its
\* parents.  origin is the URL the opened copy was cloned from.
OpenCommit(disk, repo_name, commit_hash) ==
    LET repo == LocalRepo(disk, repo_name) IN
    IF repo = "norepo"                                         \* line 66 raises
    THEN [raised |-> TRUE, origin |-> <<>>, root |-> FALSE, parent |-> <<>>]
    ELSE IF commit_hash \notin Commits(repo)                   \* line 67 raises
    THEN [raised |-> TRUE, origin |-> disk[repo_name], root |-> FALSE,
          parent |-> <<>>]
    ELSE IF Parents(repo, commit_hash) = <<>>                  \* lines 69-71
    THEN [raised |-> FALSE, origin |-> disk[repo_name], root |-> TRUE,
          parent |-> <<>>]
    ELSE [raised |-> FALSE, origin |-> disk[repo_name], root |-> FALSE,
          parent |-> Parents(repo, commit_hash)[1]]            \* line 73

\* Variant of line 83 that accepts every path.
ValidExtensionAny(file_path) == TRUE

\* line 83: Path(file_path).suffix.lower() in VALID_EXTENSIONS
ValidExtension(file_path) == Lower(Suffix(file_path)) \in VALID_EXTENSIONS

\* line 90: not vulnerable_code (None or the empty string)
Falsy(r) == ~r.ok \/ r.text = <<>>

\* Variant of line 93 that never skips.
IdenticalNever(vulnerable_code, fixed_code) == FALSE

\* line 93
Identical(vulnerable_code, fixed_code) == vulnerable_code = fixed_code

CodeRecord(cve_id, file_path, code, label) ==
    [cve_id |-> cve_id, file_path |-> file_path, code |-> code,
     label |-> label]

\* Variant of lines 97-108 that labels both records 0.
PairRecordsSameLabel(cve_id, file_path, vulnerable_code, fixed_code) ==
    << CodeRecord(cve_id, file_path, vulnerable_code, 0),
       CodeRecord(cve_id, file_path, fixed_code, 0) >>

\* lines 97-108
PairRecords(cve_id, file_path, vulnerable_code, fixed_code) ==
    << CodeRecord(cve_id, file_path, vulnerable_code, 0),
       CodeRecord(cve_id, file_path, fixed_code, 1) >>

NotCalled == Retrieved(FALSE, <<>>, <<>>, FALSE)

ItemResult(item, recs, v, f, calls) ==
    [item |-> item, recs |-> recs, v |-> v, f |-> f, calls |-> calls,
     reads |-> (IF v.read THEN 1 ELSE 0) + (IF f.read THEN 1 ELSE 0),
     warned |-> v.warned \o f.warned,
     raised |-> v.escaped \/ f.escaped]

\* lines 79-108: one iteration of the loop over the diff
ProcessItem(disk, repo_name, cve_id, parent, commit_hash, item) ==
    LET file_path == item.a_path
        v == get_file_content(disk, repo_name, file_path, parent)
        f == get_file_content(disk, repo_name, file_path, commit_hash)
    IN  IF item.change_type # "M"                              \* lines 79-80
        THEN ItemResult(item, <<>>, NotCalled, NotCalled, 0)
        ELSE IF ~ValidExtension(file_path)                     \* lines 83-84
        THEN ItemResult(item, <<>>, NotCalled, NotCalled, 0)
        ELSE IF v.escaped                                      \* line 87
        THEN ItemResult(item, <<>>, v, NotCalled, 1)
        ELSE IF f.escaped                                      \* line 88
        THEN ItemResult(item, <<>>, v, f, 2)
        ELSE IF Falsy(v) \/ Falsy(f)                           \* lines 90-91
        THEN ItemResult(item, <<>>, v, f, 2)
        ELSE IF Identical(v.text, f.text)                      \* lines 93-94
        THEN ItemResult(item, <<>>, v, f, 2)
        ELSE ItemResult(item,
                 PairRecords(cve_id, file_path, v.text, f.text), v, f, 2)

\* lines 78-108 without an exception: the records of all items
RECURSIVE LoopRecords(_, _, _, _, _, _)
LoopRecords(disk, repo_name, cve_id, parent, commit_hash, diff) ==
    IF diff = <<>> THEN <<>>
    ELSE ProcessItem(disk, repo_name, cve_id, parent, commit_hash,
                     Head(diff)).recs
         \o LoopRecords(disk, repo_name, cve_id, parent, commit_hash,
                        Tail(diff))

\* process_repository on a row when the backend raises only where the
\* repository content makes it raise: the returned records, the cache
\* directory afterwards, and whether the except clause was entered.
RunRow(disk, cve_id, repo_url, commit_hash) ==
    LET acq  == Acquire(disk, repo_url)
        name == RepoName(repo_url)
        opn  == OpenCommit(acq.disk, name, commit_hash)
    IN  IF acq.raised
        THEN [pairs |-> <<>>, disk |-> acq.disk, raised |-> TRUE]
        ELSE IF opn.raised
        THEN [pairs |-> <<>>, disk |-> acq.disk, raised |-> TRUE]
        ELSE IF opn.root
        THEN [pairs |-> <<>>, disk |-> acq.disk, raised |-> FALSE]
        ELSE [pairs |-> LoopRecords(acq.disk, name, cve_id, opn.parent,
                            commit_hash,
                            DiffIndex(LocalRepo(acq.disk, name), commit_hash)),
              disk |-> acq.disk, raised |-> FALSE]

\* ------------------------------------------------------------------------
\* main (lines 115-146) and the state of a run
\* ------------------------------------------------------------------------
InputRow(cve_id, repo_url, commit_hash) ==
    [cve_id |-> cve_id, repo_url |-> repo_url, commit_hash |-> commit_hash]

\* Rows the input file may hold (raw column values, before strip()).
RowCandidates ==
    { InputRow("CVE-1", <<" ", "a", "/", "l", "i", "b", ".", "g", "i", "t", " ">>, <<"c", "1">>),
      InputRow("CVE-2", <<"b", "/", "l", "i", "b">>, <<" ", "d", "1">>),
      InputRow("CVE-3", <<"a", "/", "l", "i", "b", ".", "g", "i", "t">>, <<"z", "z">>),
      InputRow("CVE-4", <<"x", "/", "d", "o", "w", "n">>, <<"c", "1">>),
      InputRow("CVE-5", <<" ">>, <<"c", "1">>),
      InputRow("CVE-6", <<"a", "/", "l", "i", "b", ".", "g", "i", "t">>, <<"c", "0">>),
      InputRow("CVE-7", <<"c", "/", "l", ".", "g", "i", "t", "i", "b">>, <<"e", "1">>) }

InputFiles == UNION { [1..n -> RowCandidates] : n \in 0..MaxRows }

\* line 140: the header DictWriter.writeheader() writes
HeaderRow ==
    [cve_id |-> "cve_id", file_path |-> <<"f", "i", "l", "e", "_", "p", "a", "t", "h">>, code |-> <<"c", "o", "d", "e">>,
     label |-> "label"]

\* line 144: DictWriter.writerow() writes the label as text
CsvRow(rec) ==
    [cve_id |-> rec.cve_id, file_path |-> rec.file_path, code |-> rec.code,
     label |-> IF rec.label = 0 THEN "0" ELSE "1"]

\* Variant of line 141 that writes the header for every row.
AtStartAlways(out) == TRUE

\* line 141: f.tell() == 0 on the file opened for appending
AtStart(out) == Len(out) = 0

NoItem == ItemResult(Change("-", <<>>), <<>>, NotCalled, NotCalled, 0)

NoRow == [cve_id |-> "", repo_url |-> <<>>, commit_hash |-> <<>>,
          repo_name |-> <<>>, parent |-> <<>>]

EmptyDisk == [n \in {} |-> <<>>]

NoHist == [written |-> FALSE, failing |-> FALSE, pairs |-> <<>>,
           expected |-> <<>>]

NoProbe == [phase |-> "idle", disk |-> EmptyDisk, repo_name |-> <<>>,
            file_path |-> <<>>, commit_hash |-> <<>>, res |-> NotCalled]

VARIABLES
    rows,      \* the rows of CSV_FILE
    rowIdx,    \* position of the reader in rows (next row to read)
    pc,        \* position in the code
    disk,      \* the directory cloned_repos
    cur,       \* the locals of the current row
    repo,      \* URL the repository opened at line 66 was cloned from
    diff,      \* the diff items not yet iterated
    results,   \* process_repository's results list
    raised,    \* an exception was raised in the try block for this row
    injected,  \* ... by the backend, not by the repository content
    pairs,     \* the value process_repository returned
    out,       \* the lines of OUTPUT_FILE
    outRow,    \* for each line of out, the input row that wrote it (0: header)
    log,       \* the log records
    nDiff,     \* calls of parent_commit.diff for this row
    nRetr,     \* calls of get_file_content for this row
    nRead,     \* reads of blob bytes for this row
    last,      \* what the last loop iteration did
    gdisk,     \* cache directory of the run without the failing rows
    hist,      \* the last row written: its records and those expected
    probe      \* a direct call of get_file_content

vars == << rows, rowIdx, pc, disk, cur, repo, diff, results, raised,
           injected, pairs, out, outRow, log, nDiff, nRetr, nRead, last,
           gdisk, hist, probe >>

rowVars == << cur, repo, diff, results, raised, injected, pairs, nDiff,
              nRetr, nRead, last >>

Init ==
    /\ rows \in InputFiles
    /\ rowIdx = 1
    /\ pc = "main"
    /\ disk = EmptyDisk                 \* line 116 on a fresh directory
    /\ cur = NoRow
    /\ repo = <<>>
    /\ diff = <<>>
    /\ results = <<>>
    /\ raised = FALSE
    /\ injected = FALSE
    /\ pairs = <<>>
    /\ out = <<>>                       \* lines 119-120
    /\ outRow = <<>>
    /\ log = <<>>
    /\ nDiff = 0
    /\ nRetr = 0
    /\ nRead = 0
    /\ last = NoItem
    /\ gdisk = EmptyDisk
    /\ hist = NoHist
    /\ probe = NoProbe

\* lines 125-131: a row with an empty repo_url or commit_hash is skipped
MainSkipRow ==
    /\ pc = "main"
    /\ rowIdx <= Len(rows)
    /\ \/ Strip(rows[rowIdx].repo_url) = <<>>
       \/ Strip(rows[rowIdx].commit_hash) = <<>>
    /\ rowIdx' = rowIdx + 1
    /\ UNCHANGED << rows, pc, disk, out, outRow, log, gdisk, hist, probe >>
    /\ UNCHANGED rowVars

\* lines 125-136 and 56-58: read a row and enter process_repository
MainStartRow ==
    /\ pc = "main"
    /\ rowIdx <= Len(rows)
    /\ Strip(rows[rowIdx].repo_url) # <<>>
    /\ Strip(rows[rowIdx].commit_hash) # <<>>
    /\ LET repo_url == Strip(rows[rowIdx].repo_url) IN
       /\ cur' = [cve_id |-> rows[rowIdx].cve_id, repo_url |-> repo_url,
                  commit_hash |-> Strip(rows[rowIdx].commit_hash),
                  repo_name |-> RepoName(repo_url), parent |-> <<>>]
       /\ log' = Append(log, LogEntry("INFO", "Processing",
                     rows[rowIdx].cve_id, repo_url, <<>>, <<>>, 0))
    /\ pc' = "acquire"
    /\ repo' = <<>>
    /\ diff' = <<>>
    /\ results' = <<>>
    /\ raised' = FALSE
    /\ injected' = FALSE
    /\ pairs' = <<>>
    /\ nDiff' = 0
    /\ nRetr' = 0
    /\ nRead' = 0
    /\ last' = NoItem
    /\ UNCHANGED << rows, rowIdx, disk, out, outRow, gdisk, hist, probe >>

\* lines 61-64
PRAcquire ==
    /\ pc = "acquire"
    /\ LET acq == Acquire(disk, cur.repo_url) IN
       /\ disk' = acq.disk
       /\ log' = IF acq.cloned
                 THEN Append(log, LogEntry("INFO", "Cloning", "",
                                 cur.repo_url, <<>>, <<>>, 0))
                 ELSE log
       /\ raised' = acq.raised
       /\ pc' = IF acq.raised THEN "except" ELSE "open"
    /\ UNCHANGED << rows, rowIdx, cur, repo, diff, results, injected, pairs,
                    out, outRow, nDiff, nRetr, nRead, last, gdisk, hist,
                    probe >>

\* lines 66-73
PROpen ==
    /\ pc = "open"
    /\ LET opn == OpenCommit(disk, cur.repo_name, cur.commit_hash) IN
       /\ repo' = opn.origin
       /\ raised' = opn.raised
       /\ cur' = [cur EXCEPT !.parent = opn.parent]
       /\ log' = IF opn.root
                 THEN Append(log, NoParentWarning(cur.commit_hash))
                 ELSE log
       /\ pairs' = IF opn.root THEN <<>> ELSE pairs              \* line 71
       /\ pc' = IF opn.raised THEN "except"
                ELSE IF opn.root THEN "ret" ELSE "diff"
    /\ UNCHANGED << rows, rowIdx, disk, diff, results, injected, out, outRow,
                    nDiff, nRetr, nRead, last, gdisk, hist, probe >>

\* line 76; the backend may fail on a damaged repository
PRDiff ==
    /\ pc = "diff"
    /\ nDiff' = nDiff + 1
    /\ \E fault \in BOOLEAN :
         IF fault
         THEN /\ raised' = TRUE
              /\ injected' = TRUE
              /\ pc' = "except"
              /\ diff' = diff
         ELSE /\ diff' = DiffIndex(LocalRepo(disk, cur.repo_name),
                                   cur.commit_hash)
              /\ pc' = "loop"
              /\ UNCHANGED << raised, injected >>
    /\ UNCHANGED << rows, rowIdx, disk, cur, repo, results, pairs, out,
                    outRow, log, nRetr, nRead, last, gdisk, hist, probe >>

\* lines 78-108: one iteration; the backend may fail on the diff item
PRItem ==
    /\ pc = "loop"
    /\ diff # <<>>
    /\ \E fault \in BOOLEAN :
         IF fault
         THEN /\ raised' = TRUE
              /\ injected' = TRUE
              /\ pc' = "except"
              /\ UNCHANGED << diff, results, log, nRetr, nRead, last >>
         ELSE LET r == ProcessItem(disk, cur.repo_name, cur.cve_id,
                                   cur.parent, cur.commit_hash, Head(diff))
              IN  /\ last' = r
                  /\ results' = results \o r.recs
                  /\ log' = log \o r.warned
                  /\ nRetr' = nRetr + r.calls
                  /\ nRead' = nRead + r.reads
                  /\ raised' = r.raised
                  /\ pc' = IF r.raised THEN "except" ELSE "loop"
                  /\ diff' = Tail(diff)
                  /\ UNCHANGED injected
    /\ UNCHANGED << rows, rowIdx, disk, cur, repo, pairs, out, outRow, nDiff,
                    gdisk, hist, probe >>

\* line 78 on the exhausted diff, then line 113
PRLoopExit ==
    /\ pc = "loop"
    /\ diff = <<>>
    /\ pairs' = results
    /\ pc' = "ret"
    /\ UNCHANGED << rows, rowIdx, disk, cur, repo, diff, results, raised,
                    injected, out, outRow, log, nDiff, nRetr, nRead, last,
                    gdisk, hist, probe >>

\* lines 110-113
PRExcept ==
    /\ pc = "except"
    /\ log' = Append(log, ProcessError(cur.repo_url))
    /\ pairs' = results
    /\ pc' = "ret"
    /\ UNCHANGED << rows, rowIdx, disk, cur, repo, diff, results, raised,
                    injected, out, outRow, nDiff, nRetr, nRead, last, gdisk,
                    hist, probe >>

\* A row is failing when its processing raises on its own account: the
\* backend failed, or the row raises on a fresh cache directory.
Failing(row, wasInjected) ==
    wasInjected \/ RunRow(EmptyDisk, row.cve_id, row.repo_url,
                          row.commit_hash).raised

\* lines 139-146: append the row's records to the output file
MainWrite ==
    /\ pc = "ret"
    /\ LET header == IF AtStart(out) THEN << HeaderRow >> ELSE << >>
           lines  == [i \in 1..Len(pairs) |-> CsvRow(pairs[i])]
           g      == RunRow(gdisk, cur.cve_id, cur.repo_url, cur.commit_hash)
           fails  == Failing(cur, injected)
       IN  /\ out' = out \o header \o lines
           /\ outRow' = outRow \o [i \in 1..Len(header) |-> 0]
                               \o [i \in 1..Len(pairs) |-> rowIdx]
           /\ gdisk' = IF fails THEN gdisk ELSE g.disk
           /\ hist' = [written |-> TRUE, failing |-> fails, pairs |-> pairs,
                       expected |-> IF fails THEN <<>> ELSE g.pairs]
    /\ log' = Append(log, LogEntry("INFO", "Extracted", cur.cve_id, <<>>,
                                   <<>>, <<>>, Len(pairs) \div 2))
    /\ rowIdx' = rowIdx + 1
    /\ pc' = "main"
    /\ UNCHANGED << rows, disk, probe >>
    /\ UNCHANGED rowVars

\* line 125 on the exhausted reader: the run ends
MainDone ==
    /\ pc = "main"
    /\ rowIdx > Len(rows)
    /\ pc' = "done"
    /\ UNCHANGED << rows, rowIdx, disk, out, outRow, log, gdisk, hist,
                    probe >>
    /\ UNCHANGED rowVars

Next ==
    \/ MainSkipRow
    \/ MainStartRow
    \/ PRAcquire
    \/ PROpen
    \/ PRDiff
    \/ PRItem
    \/ PRLoopExit
    \/ PRExcept
    \/ MainWrite
    \/ MainDone

Spec == Init /\ [][Next]_vars

\* ------------------------------------------------------------------------
\* get_file_content called on its own, on any repository path, file path
\* and commit reference
\* ------------------------------------------------------------------------
DiskWith(repo_name, repo_url) == [n \in {repo_name} |-> repo_url]

ProbeDisks ==
    { EmptyDisk, DiskWith(<<"l", "i", "b">>, <<"a", "/", "l", "i", "b", ".", "g", "i", "t">>), DiskWith(<<"l", "i", "b">>, <<"b", "/", "l", "i", "b">>),
      DiskWith(<<"l", "i", "b">>, <<"c", "/", "l", ".", "g", "i", "t", "i", "b">>) }

ProbeNames == { <<"l", "i", "b">>, <<"o", "t", "h", "e", "r">> }

ProbePaths ==
    { <<"s", "r", "c", "/", "A", "u", "t", "h", ".", "j", "a", "v", "a">>, <<"B", "i", "g", ".", "p", "y">>, <<"S", "a", "m", "e", ".", "c">>, <<"E", "d", "g", "e", ".", "g", "o">>, <<"S", "h", "o", "r", "t", ".", "h">>,
      <<"B", "a", "d", ".", "j", "s">>, <<"O", "d", "d", ".", "P", "y">>, <<"E", "n", "c", ".", "h">>, <<"N", "o", "p", "e", ".", "c">> }

ProbeCommits == { <<"c", "0">>, <<"c", "1">>, <<"d", "0">>, <<"d", "1">>, <<"e", "0">>, <<"e", "1">>, <<"z", "z">> }

InitRetriever ==
    /\ rows = <<>>
    /\ rowIdx = 1
    /\ pc = "probe"
    /\ disk = EmptyDisk
    /\ cur = NoRow
    /\ repo = <<>>
    /\ diff = <<>>
    /\ results = <<>>
    /\ raised = FALSE
    /\ injected = FALSE
    /\ pairs = <<>>
    /\ out = <<>>
    /\ outRow = <<>>
    /\ log = <<>>
    /\ nDiff = 0
    /\ nRetr = 0
    /\ nRead = 0
    /\ last = NoItem
    /\ gdisk = EmptyDisk
    /\ hist = NoHist
    /\ \E d \in ProbeDisks, n \in ProbeNames, p \in ProbePaths,
          c \in ProbeCommits :
         probe = [phase |-> "call", disk |-> d, repo_name |-> n,
                  file_path |-> p, commit_hash |-> c, res |-> NotCalled]

\* lines 29-52
Retrieve ==
    /\ pc = "probe"
    /\ probe.phase = "call"
    /\ probe' = [probe EXCEPT
                   !.phase = "ret",
                   !.res = get_file_content(probe.disk, probe.repo_name,
                               probe.file_path, probe.commit_hash)]
    /\ log' = log \o probe'.res.warned
    /\ UNCHANGED << rows, rowIdx, pc, disk, out, outRow, gdisk, hist >>
    /\ UNCHANGED rowVars

NextRetriever == Retrieve

SpecRetriever == InitRetriever /\ [][NextRetriever]_vars

\* ------------------------------------------------------------------------
\* Properties
\* ------------------------------------------------------------------------
LastPath == last.item.a_path

NoRecordFor(path) == \A i \in 1..Len(results) : results[i].file_path # path

\* C1: the two records of every emitted pair have different code text, and
\* a changed file whose two retrieved texts are equal contributes no record.
C1_PairTextsDiffer ==
    /\ \A k \in 1..(Len(results) \div 2) :
         results[2 * k - 1].code # results[2 * k].code
    /\ \A k \in 1..(Len(pairs) \div 2) :
         pairs[2 * k - 1].code # pairs[2 * k].code
    /\ (last.calls = 2 /\ last.v.ok /\ last.f.ok
           /\ last.v.text = last.f.text)
         => (last.recs = <<>> /\ NoRecordFor(LastPath))

\* C1 witness: Same.c, whose two versions decode to the same text, has been
\* iterated after a pair was emitted for another file.
C1_Witness ==
    /\ LastPath = <<"S", "a", "m", "e", ".", "c">>
    /\ last.calls = 2 /\ last.v.ok /\ last.f.ok
    /\ last.v.text = last.f.text
    /\ Len(results) >= 2

PairedSeq(s, cve_id) ==
    /\ Len(s) % 2 = 0
    /\ \A k \in 1..(Len(s) \div 2) :
         /\ s[2 * k - 1].label = 0
         /\ s[2 * k].label = 1
         /\ s[2 * k - 1].cve_id = cve_id
         /\ s[2 * k].cve_id = cve_id
         /\ s[2 * k - 1].file_path = s[2 * k].file_path

\* C2: the results list and the returned sequence consist of complete
\* adjacent pairs: even length, labels 0 then 1, both with the cve_id passed
\* in and the same file_path; an iteration adds no record or two.
C2_CompletePairs ==
    /\ PairedSeq(results, cur.cve_id)
    /\ PairedSeq(pairs, cur.cve_id)
    /\ Len(last.recs) \in {0, 2}

\* C2 witness: process_repository returned two pairs.
C2_Witness == pc = "ret" /\ Len(pairs) >= 4 /\ ~raised

\* C3 (as claimed): when an exception was raised while a row was handled,
\* the error naming the repository is logged and the row yields no record.
C3_ExceptionYieldsEmpty ==
    (pc = "ret" /\ raised)
      => (pairs = <<>> /\ log[Len(log)] = ProcessError(cur.repo_url))

\* C4 (as claimed): a failing row does not stop the loop, and a row that is
\* not failing writes the records it writes in the run without the failing
\* rows.
C4_FaultIsolation ==
    /\ (hist.written /\ ~hist.failing) => hist.pairs = hist.expected
    /\ pc = "done" => rowIdx = Len(rows) + 1

\* C5: for a root commit process_repository returns the empty sequence, its
\* last log record is the warning naming the commit, and no diff was
\* computed and no file content retrieved.
C5_RootCommit ==
    (pc = "ret" /\ ~raised /\ repo # <<>>
        /\ Parents(Remote(repo), cur.commit_hash) = <<>>)
      => /\ pairs = <<>>
         /\ results = <<>>
         /\ log # <<>>
         /\ log[Len(log)].level = "WARNING"
         /\ log[Len(log)].msg = "No parent commit"
         /\ log[Len(log)].commit = cur.commit_hash
         /\ nDiff = 0 /\ nRetr = 0 /\ nRead = 0

\* C5 witness: the row of the root commit c0 has returned.
C5_Witness ==
    pc = "ret" /\ ~raised /\ repo # <<>> /\ cur.commit_hash = <<"c", "0">>

\* A step of the retrieval fails on the probed input.
ProbeFails ==
    LET r == LocalRepo(probe.disk, probe.repo_name)
        b == BlobAt(r, probe.commit_hash, probe.file_path)
    IN  \/ r = "norepo"
        \/ probe.commit_hash \notin Commits(r)
        \/ b = NoBlob
        \/ /\ b.size <= MAX_FILE_SIZE
           /\ \/ b.fault \in {"read", "detect", "decode"}
              \/ (b.enc # Null /\ b.enc \notin Codecs)

\* C6: no exception leaves get_file_content; its result is a text or None;
\* when a step fails the result is None and the one warning logged holds
\* the file path and the commit reference.
C6_NoExceptionEscapes ==
    probe.phase = "ret"
      => /\ ~probe.res.escaped
         /\ probe.res.ok \/ probe.res.text = <<>>
         /\ ProbeFails =>
              /\ ~probe.res.ok
              /\ Len(probe.res.warned) = 1
              /\ probe.res.warned[1].level = "WARNING"
              /\ probe.res.warned[1].path = probe.file_path
              /\ probe.res.warned[1].commit = probe.commit_hash
              /\ log = probe.res.warned

\* C6 witness: the retrieval returned after the decoder rejected the
\* detected encoding.
C6_Witness ==
    /\ probe.phase = "ret"
    /\ probe.file_path = <<"E", "n", "c", ".", "h">> /\ probe.commit_hash = <<"e", "1">>
    /\ LocalRepo(probe.disk, probe.repo_name) = "RC"
    /\ ProbeFails

SizeAt(c) == BlobAt(Remote(repo), c, LastPath).size

\* C7: a blob larger than MAX_FILE_SIZE at the parent or at the fix commit
\* is Unavailable without its bytes being read and its file gets no record;
\* a blob of exactly MAX_FILE_SIZE passes the size check (its bytes are read).
C7_LargeBlob ==
    last.calls = 2
      => /\ SizeAt(cur.parent) > MAX_FILE_SIZE
              => (~last.v.ok /\ ~last.v.read /\ last.recs = <<>>
                    /\ NoRecordFor(LastPath))
         /\ SizeAt(cur.commit_hash) > MAX_FILE_SIZE
              => (~last.f.ok /\ ~last.f.read /\ last.recs = <<>>
                    /\ NoRecordFor(LastPath))
         /\ SizeAt(cur.parent) = MAX_FILE_SIZE => last.v.read
         /\ SizeAt(cur.commit_hash) = MAX_FILE_SIZE => last.f.read

\* C7 witness: Huge.cpp, available at the parent and too large at the fix
\* commit, has been iterated.
C7_Witness ==
    /\ LastPath = <<"H", "u", "g", "e", ".", "c", "p", "p">>
    /\ last.calls = 2
    /\ last.v.ok
    /\ SizeAt(cur.commit_hash) > MAX_FILE_SIZE

\* An extension equal to a recognized one up to letter case.
CaseFoldedMember(ext) ==
    \E e \in VALID_EXTENSIONS :
        /\ Len(e) = Len(ext)
        /\ \A i \in 1..Len(e) : LowerChar(ext[i]) = e[i]

\* C8 (as claimed): a file whose extension is not literally in the set gets
\* no record and no retrieval.
C8_LiteralExtension ==
    (last.item.change_type = "M" /\ Suffix(LastPath) \notin VALID_EXTENSIONS)
      => (last.recs = <<>> /\ last.calls = 0 /\ NoRecordFor(LastPath))

\* C8 (amended): a file whose extension is not in the set when compared
\* without regard to letter case (this includes no extension) gets no record
\* and no retrieval.
C8_FoldedExtension ==
    (last.item.change_type = "M" /\ ~CaseFoldedMember(Suffix(LastPath)))
      => (last.recs = <<>> /\ last.calls = 0 /\ NoRecordFor(LastPath))

\* C8 witness: README.md, whose content differs between the commits, has
\* been iterated.
C8_Witness ==
    /\ LastPath = <<"R", "E", "A", "D", "M", "E", ".", "m", "d">>
    /\ last.item.change_type = "M"
    /\ BlobAt(Remote(repo), cur.parent, LastPath).tag
         # BlobAt(Remote(repo), cur.commit_hash, LastPath).tag

RowsProcessed ==
    Cardinality({ i \in 1..Len(log) : log[i].msg = "Extracted" })

C9_State ==
    /\ Cardinality({ i \in 1..Len(out) : out[i] = HeaderRow }) <= 1
    /\ out # <<>> => (out[1] = HeaderRow /\ outRow[1] = 0)
    /\ RowsProcessed >= 1 => (out # <<>> /\ out[1] = HeaderRow)
    /\ RowsProcessed = 0 => out = <<>>
    /\ \A i \in 2..Len(out) : outRow[i] >= 1
    /\ \A i, j \in 2..Len(out) : i < j => outRow[i] <= outRow[j]

C9_Append ==
    /\ Len(out') >= Len(out)
    /\ SubSeq(out', 1, Len(out)) = out

\* C9: the header is in the output at most once, first, and from the first
\* processed row on; the records follow it in input-row order, each row's
\* records contiguous, and the file only grows by appending.
C9_HeaderOnce == []C9_State /\ [][C9_Append]_vars

\* C9 witness: the first row wrote no record and the second row's records
\* follow the header.
C9_Witness ==
    /\ Len(out) >= 3
    /\ out[1] = HeaderRow
    /\ outRow[2] = 2
    /\ RowsProcessed = 2

\* C10 (as claimed): the local repository a row opens was cloned from the
\* row's own repo_url.
C10_OwnCopy == repo # <<>> => repo = cur.repo_url

====
